---- MODULE Spec2Model ----
(***************************************************************************)
(* Product catalogue with user reviews (products/models.py,                *)
(* products/serializers.py, products/views.py).                            *)
(*                                                                         *)
(* The store is the two tables Product and Review.  Every request handler  *)
(* of ProductViewSet and ReviewViewSet is an action.  Spec runs the        *)
(* handlers one request at a time.  RaceSpec lets requests overlap: a      *)
(* review write may stop between its read phase (permission check,         *)
(* get_object, serializer validation) and its write phase (the INSERT,     *)
(* UPDATE or DELETE) while other requests run.  A read phase writes        *)
(* nothing, so every overlap of two requests is such a run.                *)
(* The name, comment and created_at columns carry no behaviour             *)
(* of their own and are left out; created_at order is the id order.        *)
(* A response stays in the response slot until the client has received it; *)
(* the next request is sent after that.                                    *)
(***************************************************************************)
EXTENDS Integers, Sequences, FiniteSets

\* ---------------------------------------------------------------- bounds
MaxProducts == 2
MaxReviews == 2

\* ---------------------------------------------------------------- inputs
Users == {"alice", "bob"}
Anonymous == "anonymous"
Callers == Users \cup {Anonymous}

\* price inputs in cents: zero and a valid price (1.99)
PriceInputs == {0, 199}
\* rating inputs on both sides of each end of the range
RatingInputs == {0, 1, 5, 6}
\* a field the request body does not carry
Absent == -100

\* min_rating query values, as character sequences; <<>> is "no parameter",
\* <<s>> is "?min_rating=s"
MinRatingInputs ==
    { <<>>,
      << <<>> >>,
      << <<"a", "b", "c">> >>,
      << <<"n", "a", "n">> >>,
      << <<"-", "i", "n", "f">> >>,
      << <<"3">> >>,
      << <<" ", "3", ".", "5">> >> }

\* the min_rating a product write is sent with: none, a number, nan
WriteMinRatingInputs == {<<>>, << <<"3">> >>, << <<"n", "a", "n">> >>}

VARIABLES products, reviews, nextProductId, nextReviewId, inflight, response, author

vars == <<products, reviews, nextProductId, nextReviewId, inflight, response, author>>

\* ---------------------------------------------------------------- responses
NoBody == [kind |-> "none"]

\* the response slot when the client holds no unread response
NoResponse == [status |-> "none", detail |-> {}, body |-> NoBody]

Idle == response = NoResponse

Respond(status, detail, body) == [status |-> status, detail |-> detail, body |-> body]

\* ---------------------------------------------------------------- float()
Digits == {"0", "1", "2", "3", "4", "5", "6", "7", "8", "9"}

DigitValue(c) ==
    CASE c = "0" -> 0 [] c = "1" -> 1 [] c = "2" -> 2 [] c = "3" -> 3 [] c = "4" -> 4
      [] c = "5" -> 5 [] c = "6" -> 6 [] c = "7" -> 7 [] c = "8" -> 8 [] c = "9" -> 9

RECURSIVE StripLeft(_)
StripLeft(s) == IF s # <<>> /\ Head(s) = " " THEN StripLeft(Tail(s)) ELSE s

RECURSIVE StripRight(_)
StripRight(s) ==
    IF s # <<>> /\ s[Len(s)] = " " THEN StripRight(SubSeq(s, 1, Len(s) - 1)) ELSE s

RECURSIVE DigitsValue(_)
DigitsValue(s) ==
    IF s = <<>> THEN 0 ELSE 10 * DigitsValue(SubSeq(s, 1, Len(s) - 1)) + DigitValue(s[Len(s)])

RECURSIVE Pow10(_)
Pow10(n) == IF n = 0 THEN 1 ELSE 10 * Pow10(n - 1)

AllDigits(s) == \A i \in 1..Len(s) : s[i] \in Digits

ValueError == [ok |-> FALSE]

\* The unsigned part of a float literal: nan, inf, or digits with at most one
\* point and at least one digit.
ParseUnsigned(s, neg) ==
    LET dots == {i \in 1..Len(s) : s[i] = "."}
    IN  IF s = <<"n", "a", "n">> THEN [ok |-> TRUE, kind |-> "nan", neg |-> neg, num |-> 0, den |-> 1]
        ELSE IF s = <<"i", "n", "f">> THEN [ok |-> TRUE, kind |-> "inf", neg |-> neg, num |-> 0, den |-> 1]
        ELSE IF dots = {} THEN
            IF s # <<>> /\ AllDigits(s)
            THEN [ok |-> TRUE, kind |-> "fin", neg |-> neg, num |-> DigitsValue(s), den |-> 1]
            ELSE ValueError
        ELSE IF Cardinality(dots) = 1 THEN
            LET d == CHOOSE i \in dots : TRUE
                whole == SubSeq(s, 1, d - 1)
                frac == SubSeq(s, d + 1, Len(s))
            IN  IF AllDigits(whole) /\ AllDigits(frac) /\ Len(whole) + Len(frac) > 0
                THEN [ok |-> TRUE, kind |-> "fin", neg |-> neg,
                      num |-> DigitsValue(whole) * Pow10(Len(frac)) + DigitsValue(frac),
                      den |-> Pow10(Len(frac))]
                ELSE ValueError
        ELSE ValueError

\* Python's float(str): surrounding blanks are dropped, one sign is allowed.
float(str) ==
    LET s == StripRight(StripLeft(str))
    IN  IF s = <<>> THEN ValueError
        ELSE IF Head(s) = "-" THEN ParseUnsigned(Tail(s), TRUE)
        ELSE IF Head(s) = "+" THEN ParseUnsigned(Tail(s), FALSE)
        ELSE ParseUnsigned(s, FALSE)

\* avg >= m for a finite average avg = num/den (den > 0) and a parsed float m.
\* A comparison with nan is never true.
Gte(avg, m) ==
    CASE m.kind = "nan" -> FALSE
      [] m.kind = "inf" -> m.neg
      [] m.kind = "fin" ->
            avg.num * m.den >= (IF m.neg THEN 0 - m.num ELSE m.num) * avg.den

\* ---------------------------------------------------------------- aggregation
Null == [id |-> 0, product |-> 0, user |-> "", rating |-> 0]

\* Product LEFT OUTER JOIN Review on review.product = product.id, for one product
JoinRows(p) ==
    LET rs == {r \in reviews : r.product = p.id}
    IN  IF rs = {} THEN {Null} ELSE rs

RECURSIVE SumRating(_)
SumRating(rows) ==
    IF rows = {} THEN 0
    ELSE LET r == CHOOSE x \in rows : TRUE IN r.rating + SumRating(rows \ {r})

\* Avg("reviews__rating"): NULL rows are skipped; the result is NULL over no row
Avg(rows) ==
    LET nn == {r \in rows : r # Null}
    IN  IF nn = {} THEN [null |-> TRUE, num |-> 0, den |-> 1]
        ELSE [null |-> FALSE, num |-> SumRating(nn), den |-> Cardinality(nn)]

\* Coalesce(x, 0.0)
Coalesce(x) == IF x.null THEN [num |-> 0, den |-> 1] ELSE [num |-> x.num, den |-> x.den]

\* Count("*"): counts every joined row
CountAllRows(rows) == Cardinality(rows)

\* Count("reviews"): counts the joined rows whose review is not NULL
Count(rows) == Cardinality({r \in rows : r # Null})

annotate(p) ==
    [id |-> p.id, price |-> p.price,
     avg_rating |-> Coalesce(Avg(JoinRows(p))),
     reviews_count |-> Count(JoinRows(p))]

\* a get_queryset that annotates and never filters
get_queryset_unfiltered(q) == {annotate(p) : p \in products}

\* ProductViewSet.get_queryset under query parameter q
get_queryset(q) ==
    LET qs == {annotate(p) : p \in products}
        m == float(q[1])
    IN  IF q # <<>> /\ q[1] # <<>> /\ m.ok
        THEN {a \in qs : Gte(a.avg_rating, m)}
        ELSE qs

\* get_object: the row of get_queryset with this pk, or none
get_object(q, pk) == {a \in get_queryset(q) : a.id = pk}

\* ---------------------------------------------------------------- permissions
SafeMethods == {"GET", "HEAD", "OPTIONS"}

IsAuthenticatedOrReadOnly(caller, method) == method \in SafeMethods \/ caller \in Users

\* ---------------------------------------------------------------- products
validate_price(value) == value > 0

ProductSerializerValid(method, body) ==
    IF body.price = Absent THEN method = "PATCH" ELSE validate_price(body.price)

ProductIds == 1..MaxProducts

ProductBodies == [price : PriceInputs \cup {Absent}]


\* ids of a set of rows, newest first (created_at grows with the id)
RECURSIVE NewestFirst(_)
NewestFirst(ids) ==
    IF ids = {} THEN <<>>
    ELSE LET m == CHOOSE i \in ids : \A j \in ids : j <= i
         IN  <<m>> \o NewestFirst(ids \ {m})

\* Every handler of a viewset is an operator that gives the handler's response
\* and the rows it leaves in the store, and an action that applies it.  The
\* handlers of ProductViewSet check the permission, then look the product up
\* in get_queryset (detail routes), then validate, then write.
Unchanged(resp) == [response |-> resp, products |-> products, reviews |-> reviews]

\* GET /products/
list(q) ==
    Respond("OK", {}, [kind |-> "list", ids |-> {a.id : a \in get_queryset(q)}])

\* GET /products/{pk}/
retrieve(q, pk) ==
    IF get_object(q, pk) = {} THEN Respond("NotFound", {}, NoBody)
    ELSE Respond("OK", {}, [kind |-> "product", id |-> pk])

\* ProductViewSet.rating: get_queryset has annotated the product, so the
\* fallback aggregate of the handler is never taken
rating(q, pk) ==
    IF get_object(q, pk) = {} THEN Respond("NotFound", {}, NoBody)
    ELSE LET product == CHOOSE a \in get_object(q, pk) : TRUE
         IN  Respond("OK", {}, [kind |-> "rating", product_id |-> product.id,
                                avg_rating |-> product.avg_rating,
                                count |-> product.reviews_count])

\* ProductViewSet.product_reviews
product_reviews(q, pk) ==
    IF get_object(q, pk) = {} THEN Respond("NotFound", {}, NoBody)
    ELSE Respond("OK", {}, [kind |-> "reviews",
                            ids |-> NewestFirst({r.id : r \in {x \in reviews : x.product = pk}})])

\* POST /products/
create(caller, body) ==
    IF ~IsAuthenticatedOrReadOnly(caller, "POST")
    THEN Unchanged(Respond("NotAuthenticated", {}, NoBody))
    ELSE IF ~ProductSerializerValid("POST", body)
    THEN Unchanged(Respond("ValidationError", {"price"}, NoBody))
    ELSE [response |-> Respond("Created", {}, [kind |-> "product", id |-> nextProductId]),
          products |-> products \cup {[id |-> nextProductId, price |-> body.price]},
          reviews |-> reviews]

\* PUT and PATCH /products/{pk}/
update(method, caller, q, pk, body) ==
    IF ~IsAuthenticatedOrReadOnly(caller, method)
    THEN Unchanged(Respond("NotAuthenticated", {}, NoBody))
    ELSE IF get_object(q, pk) = {}
    THEN Unchanged(Respond("NotFound", {}, NoBody))
    ELSE IF ~ProductSerializerValid(method, body)
    THEN Unchanged(Respond("ValidationError", {"price"}, NoBody))
    ELSE [response |-> Respond("OK", {}, [kind |-> "product", id |-> pk]),
          products |-> {IF p.id = pk /\ body.price # Absent
                        THEN [id |-> pk, price |-> body.price] ELSE p : p \in products},
          reviews |-> reviews]

\* on_delete that leaves the reviews of a deleted product in place
CascadeNothing(pk) == {}

\* on_delete=CASCADE of Review.product: the reviews that go with a product
Cascade(pk) == {r \in reviews : r.product = pk}

\* DELETE /products/{pk}/
destroy(caller, q, pk) ==
    IF ~IsAuthenticatedOrReadOnly(caller, "DELETE")
    THEN Unchanged(Respond("NotAuthenticated", {}, NoBody))
    ELSE IF get_object(q, pk) = {}
    THEN Unchanged(Respond("NotFound", {}, NoBody))
    ELSE [response |-> Respond("NoContent", {}, NoBody),
          products |-> {p \in products : p.id # pk},
          reviews |-> reviews \ Cascade(pk)]

\* a read answers and leaves the store as it is
Answer(resp) ==
    /\ Idle
    /\ response' = resp
    /\ UNCHANGED <<products, reviews, nextProductId, nextReviewId, inflight, author>>

\* a product write answers and leaves its rows in the store
ApplyProductWrite(o) ==
    /\ Idle
    /\ response' = o.response
    /\ products' = o.products
    /\ reviews' = o.reviews
    /\ UNCHANGED <<nextReviewId, inflight, author>>

ProductList(q) == Answer(list(q))

ProductRetrieve(q, pk) == Answer(retrieve(q, pk))

ProductRating(q, pk) == Answer(rating(q, pk))

ProductReviews(q, pk) == Answer(product_reviews(q, pk))

ProductCreate(caller, body) ==
    /\ nextProductId <= MaxProducts
    /\ ApplyProductWrite(create(caller, body))
    /\ nextProductId' = IF create(caller, body).products = products THEN nextProductId
                        ELSE nextProductId + 1

ProductUpdate(method, caller, q, pk, body) ==
    /\ ApplyProductWrite(update(method, caller, q, pk, body))
    /\ UNCHANGED nextProductId

ProductDestroy(caller, q, pk) ==
    /\ ApplyProductWrite(destroy(caller, q, pk))
    /\ UNCHANGED nextProductId

\* ---------------------------------------------------------------- reviews
AbsentUser == ""

\* a serializer whose user field is writable
ReadOnlyFieldsWithoutUser == {"created_at"}

\* ReviewSerializer.Meta.read_only_fields, with the read-only user field
ReadOnlyFields == {"user", "created_at"}

\* a Review table without the unique_together constraint
UniqueTogetherDropped(rows, row) == TRUE

\* Review.Meta.unique_together, as the store enforces it on a write: no other
\* row holds the (product, user) pair of row
UniqueTogether(rows, row) ==
    ~\E r \in rows : r.id # row.id /\ r.product = row.product /\ r.user = row.user

\* the foreign key of Review.product, as the store enforces it on a write
ForeignKeyHolds(row) == \E p \in products : p.id = row.product

\* both authentication-level permission classes of ReviewViewSet
ReviewHasPermission(caller, method) == IsAuthenticatedOrReadOnly(caller, method)

\* permissions.IsOwnerOrReadOnly.has_object_permission
IsOwnerOrReadOnly(caller, method, obj) == method \in SafeMethods \/ obj.user = caller

\* a permission list that leaves IsOwnerOrReadOnly out
ObjectPermissionUnlisted(caller, method, obj) == TRUE

\* the object-level permission classes ReviewViewSet lists
ReviewHasObjectPermission(caller, method, obj) == IsOwnerOrReadOnly(caller, method, obj)

\* a range check that starts at 0
validate_rating_from_zero(value) == ~(value < 0 \/ value > 5)

validate_rating(value) == ~(value < 1 \/ value > 5)

\* the fields of the body that fail field validation: a required field that is
\* missing (not on PATCH), a product that does not exist, a rating out of range
FieldErrors(method, body) ==
    {f \in {"product"} :
        IF body.product = Absent THEN method # "PATCH"
        ELSE ~\E p \in products : p.id = body.product}
    \cup
    {f \in {"rating"} :
        IF body.rating = Absent THEN method # "PATCH"
        ELSE ~validate_rating(body.rating)}

\* the validated attributes: read-only fields of the body are dropped
to_internal_value(body) ==
    [product |-> body.product, rating |-> body.rating,
     user |-> IF "user" \in ReadOnlyFields THEN AbsentUser ELSE body.user]

\* a validate that skips the look-up of an existing review
validateWithoutLookup(method, caller, attrs) == TRUE

\* ReviewSerializer.validate: TRUE when attrs pass
validate(method, caller, attrs) ==
    ~(method = "POST"
      /\ attrs.product # Absent
      /\ \E r \in reviews : r.product = attrs.product /\ r.user = caller)

\* ReviewViewSet.perform_create: the user the new row is saved with
perform_create(caller, attrs) == caller

\* bodies that name no user
ReviewBodies ==
    [product : ProductIds \cup {Absent}, rating : RatingInputs \cup {Absent},
     user : {AbsentUser}]

\* bodies that name bob as the author, whoever sends them
RaceReviewBodies ==
    [product : ProductIds \cup {Absent}, rating : {5, Absent}, user : {"bob"}]

NoReviewBody == [product |-> Absent, rating |-> Absent, user |-> AbsentUser]

ReviewBody(r) == [kind |-> "review", id |-> r.id, product |-> r.product,
                  user |-> r.user, rating |-> r.rating]

\* The read phase of a review write: the error it ends in, or the write it
\* hands to the store.
ReviewBegin(method, caller, pk, body) ==
    LET found == {r \in reviews : r.id = pk}
        obj == CHOOSE r \in found : TRUE
        attrs == to_internal_value(body)
        fail(status, detail) == [ok |-> FALSE, response |-> Respond(status, detail, NoBody)]
    IN  IF ~ReviewHasPermission(caller, method) THEN fail("NotAuthenticated", {})
        ELSE IF method # "POST" /\ found = {} THEN fail("NotFound", {})
        ELSE IF method # "POST" /\ ~ReviewHasObjectPermission(caller, method, obj)
            THEN fail("PermissionDenied", {})
        ELSE IF method = "DELETE"
            THEN [ok |-> TRUE, write |-> [op |-> "delete", caller |-> caller, row |-> obj]]
        ELSE IF FieldErrors(method, body) # {}
            THEN fail("ValidationError", FieldErrors(method, body))
        ELSE IF ~validate(method, caller, attrs)
            THEN fail("ValidationError", {"non_field_errors"})
        ELSE IF method = "POST"
            THEN [ok |-> TRUE,
                  write |-> [op |-> "insert", caller |-> caller,
                             row |-> [id |-> 0, product |-> attrs.product,
                                      user |-> perform_create(caller, attrs),
                                      rating |-> attrs.rating]]]
        ELSE [ok |-> TRUE,
              write |-> [op |-> "update", caller |-> caller,
                         row |-> [id |-> obj.id,
                                  product |-> IF attrs.product = Absent THEN obj.product
                                              ELSE attrs.product,
                                  user |-> IF attrs.user = AbsentUser THEN obj.user
                                           ELSE attrs.user,
                                  rating |-> IF attrs.rating = Absent THEN obj.rating
                                             ELSE attrs.rating]]]

\* The write phase: the store after Model.save() / Model.delete() of w, and
\* the response.  save() of a loaded row is an UPDATE, and an INSERT of the
\* same row when the UPDATE matched nothing.
ReviewWrite(w) ==
    LET row == IF w.op = "insert" THEN [w.row EXCEPT !.id = nextReviewId] ELSE w.row
    IN  IF w.op = "delete"
        THEN [reviews |-> {r \in reviews : r.id # row.id},
              response |-> Respond("NoContent", {}, NoBody), inserted |-> FALSE]
        ELSE IF ~ForeignKeyHolds(row)
        THEN [reviews |-> reviews,
              response |-> Respond("IntegrityError", {"foreign_key"}, NoBody),
              inserted |-> FALSE]
        ELSE IF ~UniqueTogether(reviews, row)
        THEN [reviews |-> reviews,
              response |-> Respond("IntegrityError", {"unique_together"}, NoBody),
              inserted |-> FALSE]
        ELSE [reviews |-> {r \in reviews : r.id # row.id} \cup {row},
              response |-> Respond(IF w.op = "insert" THEN "Created" ELSE "OK", {}, NoBody),
              inserted |-> w.op = "insert"]

\* a review write that runs both phases: POST /reviews/, and PUT, PATCH and
\* DELETE /reviews/{pk}/
ReviewOutcome(method, caller, pk, body) ==
    LET b == ReviewBegin(method, caller, pk, body)
    IN  IF b.ok THEN ReviewWrite(b.write)
        ELSE [reviews |-> reviews, response |-> b.response, inserted |-> FALSE]

\* GET /reviews/
ReviewListResponse ==
    Respond("OK", {}, [kind |-> "reviews", ids |-> NewestFirst({r.id : r \in reviews})])

\* GET /reviews/{pk}/
ReviewRetrieveResponse(caller, pk) ==
    LET found == {r \in reviews : r.id = pk}
    IN  IF ~ReviewHasPermission(caller, "GET") THEN Respond("NotAuthenticated", {}, NoBody)
        ELSE IF found = {} THEN Respond("NotFound", {}, NoBody)
        ELSE IF ~ReviewHasObjectPermission(caller, "GET", CHOOSE r \in found : TRUE)
            THEN Respond("PermissionDenied", {}, NoBody)
        ELSE Respond("OK", {}, ReviewBody(CHOOSE r \in found : TRUE))

\* the store and the response after o, the outcome of a write phase by caller
Commit(o, caller) ==
    /\ reviews' = o.reviews
    /\ response' = o.response
    /\ IF o.inserted
       THEN /\ nextReviewId' = nextReviewId + 1
            /\ author' = Append(author, caller)
       ELSE UNCHANGED <<nextReviewId, author>>
    /\ UNCHANGED <<products, nextProductId>>

\* an id is left for one more creation
IdsLeft == nextReviewId + Cardinality({w \in inflight : w.op = "insert"}) <= MaxReviews

\* a review write handled without another request in between
ReviewRequest(method, caller, pk, body) ==
    /\ Idle
    /\ ReviewBegin(method, caller, pk, body).ok /\ method = "POST" => IdsLeft
    /\ Commit(ReviewOutcome(method, caller, pk, body), caller)
    /\ UNCHANGED inflight

\* The read phase of a review write alone: it answers with its error, or
\* leaves its write in flight.
ReviewRequestBegin(method, caller, pk, body) ==
    /\ Idle
    /\ inflight = {}
    /\ LET b == ReviewBegin(method, caller, pk, body)
       IN  IF b.ok THEN /\ method = "POST" => IdsLeft
                        /\ inflight' = {b.write}
                        /\ UNCHANGED response
           ELSE /\ response' = b.response
                /\ UNCHANGED inflight
    /\ UNCHANGED <<products, reviews, nextProductId, nextReviewId, author>>

\* The write phase of a write in flight.
ReviewRequestFinish(w) ==
    /\ Idle
    /\ w \in inflight
    /\ inflight' = inflight \ {w}
    /\ Commit(ReviewWrite(w), w.caller)

ReviewList == Answer(ReviewListResponse)

ReviewRetrieve(caller, pk) == Answer(ReviewRetrieveResponse(caller, pk))

\* the client receives the response
Deliver ==
    /\ ~Idle
    /\ response' = NoResponse
    /\ UNCHANGED <<products, reviews, nextProductId, nextReviewId, inflight, author>>

Init ==
    /\ products = {}
    /\ reviews = {}
    /\ nextProductId = 1
    /\ nextReviewId = 1
    /\ inflight = {}
    /\ response = NoResponse
    /\ author = <<>>

ReviewIds == 1..MaxReviews

ProductReads ==
    \/ \E q \in MinRatingInputs : ProductList(q)
    \/ \E q \in MinRatingInputs, pk \in ProductIds : ProductRetrieve(q, pk)
    \/ \E q \in MinRatingInputs, pk \in ProductIds : ProductRating(q, pk)
    \/ \E q \in MinRatingInputs, pk \in ProductIds : ProductReviews(q, pk)

\* The permission check comes first and reads neither the query string nor the
\* body, so the anonymous caller sends each write with one of them.
ProductWrites ==
    \/ \E c \in Users, b \in ProductBodies : ProductCreate(c, b)
    \/ \E m \in {"PUT", "PATCH"}, c \in Users, q \in WriteMinRatingInputs, pk \in ProductIds,
          b \in ProductBodies : ProductUpdate(m, c, q, pk, b)
    \/ \E c \in Users, q \in WriteMinRatingInputs, pk \in ProductIds : ProductDestroy(c, q, pk)
    \/ ProductCreate(Anonymous, [price |-> Absent])
    \/ \E m \in {"PUT", "PATCH"}, pk \in ProductIds :
          ProductUpdate(m, Anonymous, <<>>, pk, [price |-> Absent])
    \/ \E pk \in ProductIds : ProductDestroy(Anonymous, <<>>, pk)

ReviewReads ==
    \/ ReviewList
    \/ \E c \in Callers, pk \in ReviewIds : ReviewRetrieve(c, pk)

ReviewWrites ==
    \/ \E c \in Users, b \in ReviewBodies : ReviewRequest("POST", c, 0, b)
    \/ \E m \in {"PUT", "PATCH"}, c \in Users, pk \in ReviewIds, b \in ReviewBodies :
          ReviewRequest(m, c, pk, b)
    \/ \E c \in Users, pk \in ReviewIds : ReviewRequest("DELETE", c, pk, NoReviewBody)
    \/ ReviewRequest("POST", Anonymous, 0, NoReviewBody)
    \/ \E m \in {"PUT", "PATCH", "DELETE"}, pk \in ReviewIds :
          ReviewRequest(m, Anonymous, pk, NoReviewBody)

\* the product writes that change the store, without a min_rating parameter
RaceProductWrites ==
    \/ \E c \in Callers, b \in ProductBodies : ProductCreate(c, b)
    \/ \E c \in Callers, pk \in ProductIds : ProductDestroy(c, <<>>, pk)

\* review writes by authenticated callers, run whole or stopped between
\* their phases
RacingReviewWrites ==
    \/ \E c \in Users, b \in RaceReviewBodies : ReviewRequest("POST", c, 0, b)
    \/ \E m \in {"PUT", "PATCH"}, c \in Users, pk \in ReviewIds, b \in RaceReviewBodies :
          ReviewRequest(m, c, pk, b)
    \/ \E c \in Users, pk \in ReviewIds : ReviewRequest("DELETE", c, pk, NoReviewBody)
    \/ \E c \in Users, b \in RaceReviewBodies : ReviewRequestBegin("POST", c, 0, b)
    \/ \E m \in {"PUT", "PATCH"}, c \in Users, pk \in ReviewIds, b \in RaceReviewBodies :
          ReviewRequestBegin(m, c, pk, b)
    \/ \E c \in Users, pk \in ReviewIds : ReviewRequestBegin("DELETE", c, pk, NoReviewBody)
    \/ \E w \in inflight : ReviewRequestFinish(w)

Next ==
    \/ ProductReads
    \/ ProductWrites
    \/ ReviewReads
    \/ ReviewWrites
    \/ Deliver

Spec == Init /\ [][Next]_vars

RaceNext ==
    \/ RaceProductWrites
    \/ ReviewReads
    \/ RacingReviewWrites
    \/ Deliver

RaceSpec == Init /\ [][RaceNext]_vars

\* ================================================================ properties

ReviewsOf(pk) == {r \in reviews : r.product = pk}

\* the sum of the ratings of product pk, counted rating by rating
RatingTotal(pk) ==
    1 * Cardinality({r \in ReviewsOf(pk) : r.rating = 1})
    + 2 * Cardinality({r \in ReviewsOf(pk) : r.rating = 2})
    + 3 * Cardinality({r \in ReviewsOf(pk) : r.rating = 3})
    + 4 * Cardinality({r \in ReviewsOf(pk) : r.rating = 4})
    + 5 * Cardinality({r \in ReviewsOf(pk) : r.rating = 5})

ProductExists(pk) == \E p \in products : p.id = pk

ReviewExists(pk) == \E r \in reviews : r.id = pk

ReviewAt(pk) == CHOOSE r \in reviews : r.id = pk

\* the min_rating inputs that are finite decimal numbers, with their value in
\* tenths
FiniteMinRatings == { << <<"3">> >>, << <<" ", "3", ".", "5">> >> }

Tenths(q) == IF q = << <<"3">> >> THEN 30 ELSE 35

\* the average rating of product pk (0.0 without reviews) is at least q
AverageAtLeast(pk, q) ==
    IF ReviewsOf(pk) = {} THEN 0 >= Tenths(q)
    ELSE 10 * RatingTotal(pk) >= Tenths(q) * Cardinality(ReviewsOf(pk))

\* every body a review request may carry
AnyReviewBody == ReviewBodies \cup RaceReviewBodies

\* C1: in every reachable state, whatever review creations, updates and
\* deletions have run and overlapped, at most one review exists for each
\* (product, user) pair.
OneReviewPerPair ==
    \A r1 \in reviews, r2 \in reviews :
        (r1.product = r2.product /\ r1.user = r2.user) => r1 = r2

\* C1 witness: a creation that passed the pre-check waits for its write phase
\* while a review of its (product, user) pair is already stored.
RacingCreationMeetsStoredPair ==
    \E w \in inflight :
        /\ w.op = "insert"
        /\ \E r \in reviews : r.product = w.row.product /\ r.user = w.row.user

AggregateMatches(pk, avg, count) ==
    /\ count = Cardinality(ReviewsOf(pk))
    /\ IF ReviewsOf(pk) = {} THEN avg.num = 0 /\ avg.den = 1
       ELSE avg.den > 0 /\ avg.num * Cardinality(ReviewsOf(pk)) = RatingTotal(pk) * avg.den

\* C2: the aggregates of the annotated queryset, and those a rating response
\* reports, are the number of reviews the product has now and the mean of their
\* ratings, and 0.0 and 0 for a product without reviews.
AggregatesAreCurrent ==
    /\ \A a \in get_queryset(<<>>) : AggregateMatches(a.id, a.avg_rating, a.reviews_count)
    /\ response.body.kind = "rating" =>
          AggregateMatches(response.body.product_id, response.body.avg_rating,
                           response.body.count)

\* C2 witness: a rating response over two reviews rated 1 and 5.
RatingOfTwoReviews ==
    /\ response.body.kind = "rating"
    /\ response.body.count = 2
    /\ response.body.avg_rating = [num |-> 6, den |-> 2]

\* C3: a POST by user c for a product c has already reviewed ends in
\* ValidationError, in its read phase, and leaves the reviews unchanged.
DuplicateCreateRejected ==
    Idle =>
      \A c \in Users, b \in AnyReviewBody :
          (b.product # Absent /\ \E r \in reviews : r.product = b.product /\ r.user = c)
          => LET o == ReviewOutcome("POST", c, 0, b)
             IN  /\ ~ReviewBegin("POST", c, 0, b).ok
                 /\ o.response.status = "ValidationError"
                 /\ o.reviews = reviews

\* C3 witness: the duplicate check has answered a POST.
DuplicateAnswered ==
    /\ response.status = "ValidationError"
    /\ response.detail = {"non_field_errors"}
    /\ reviews # {}

\* C4: a PUT, PATCH or DELETE of a review by an authenticated caller who is not
\* its user ends in PermissionDenied, in its read phase, and changes nothing;
\* by its user it is not denied; a GET of a review is answered for every caller.
OwnerOnlyWrites ==
    Idle =>
      \A pk \in ReviewIds :
          ReviewExists(pk) =>
              /\ \A m \in {"PUT", "PATCH", "DELETE"}, c \in Users :
                  \A b \in (IF m = "DELETE" THEN {NoReviewBody} ELSE AnyReviewBody) :
                    LET o == ReviewOutcome(m, c, pk, b)
                    IN  IF ReviewAt(pk).user # c
                        THEN /\ ~ReviewBegin(m, c, pk, b).ok
                             /\ o.response.status = "PermissionDenied"
                             /\ o.reviews = reviews
                        ELSE o.response.status \notin {"PermissionDenied", "NotAuthenticated"}
              /\ \A c \in Callers : ReviewRetrieveResponse(c, pk).status = "OK"

\* C4 witness: a write by a caller who is not the review's user was denied.
WriteDenied == response.status = "PermissionDenied" /\ reviews # {}

\* C5: every call ends in a response of the taxonomy (success,
\* ValidationError, PermissionDenied, NotAuthenticated, NotFound); none ends in
\* a raw constraint violation of the store.
StructuredResponsesOnly ==
    response.status \in {"none", "OK", "Created", "NoContent", "ValidationError",
                         "PermissionDenied", "NotAuthenticated", "NotFound"}

\* C6: the user of every stored review is the caller of the request that
\* created it, whatever user the bodies of the create and update requests name.
UserIsCreatingCaller ==
    \A r \in reviews : r.id \in DOMAIN author /\ r.user = author[r.id]

\* C6 witness: alice's review is stored as hers although every body she sends
\* names bob.
AliceKeepsHerReview ==
    \E r \in reviews : r.user = "alice" /\ author[r.id] = "alice"

\* the list C7 expects, with nan counted among the non-numeric values
ExpectedList(q) ==
    IF q \in FiniteMinRatings THEN {p.id : p \in {x \in products : AverageAtLeast(x.id, q)}}
    ELSE {p.id : p \in products}

\* C7: GET /products/?min_rating=m lists exactly the products whose average
\* rating is at least m when m is numeric, and every product, as without the
\* parameter, when it is not.
MinRatingListsExactly ==
    \A q \in MinRatingInputs : list(q).status = "OK" /\ list(q).body.ids = ExpectedList(q)

\* C7 for every input but nan: the same statement holds of them.
MinRatingListsExactlyButNan ==
    \A q \in MinRatingInputs \ { << <<"n", "a", "n">> >> } :
        list(q).status = "OK" /\ list(q).body.ids = ExpectedList(q)

RatingInRange == \A r \in reviews : 1 <= r.rating /\ r.rating <= 5

ReachesValidation(m, c, pk) ==
    c \in Users /\ (m = "POST" \/ (ReviewExists(pk) /\ ReviewAt(pk).user = c))

\* C8: every stored review has a rating from 1 to 5; a create, update or
\* partial update whose body carries a rating outside 1..5 changes nothing and,
\* when it reaches validation, ends in ValidationError on the rating field; a
\* rating within 1..5 never yields an error on the rating field.
RatingValidated ==
    /\ RatingInRange
    /\ Idle =>
         \A m \in {"POST", "PUT", "PATCH"}, c \in Callers :
          \A pk \in (IF m = "POST" THEN {0} ELSE ReviewIds),
             b \in {x \in AnyReviewBody : x.rating # Absent} :
             LET o == ReviewOutcome(m, c, pk, b)
             IN  IF b.rating < 1 \/ b.rating > 5
                 THEN /\ o.reviews = reviews
                      /\ o.response.status \in {"ValidationError", "NotAuthenticated",
                                                "NotFound", "PermissionDenied"}
                      /\ ReachesValidation(m, c, pk)
                           => (o.response.status = "ValidationError"
                               /\ "rating" \in o.response.detail)
                 ELSE "rating" \notin o.response.detail

\* C8 witness: a rating outside the range was refused while reviews rated 1 and
\* 5 are stored.
BadRatingRefused ==
    /\ response.status = "ValidationError"
    /\ "rating" \in response.detail
    /\ \E r \in reviews : r.rating = 1
    /\ \E r \in reviews : r.rating = 5

ReviewsReferenceProducts == \A r \in reviews : ProductExists(r.product)

\* C9: every stored review references a product that exists, and the deletion
\* of a product removes, in the same step, exactly the reviews of that product.
ProductDeleteCascades ==
    /\ ReviewsReferenceProducts
    /\ Idle =>
         \A c \in Callers, q \in WriteMinRatingInputs, pk \in ProductIds :
            LET o == destroy(c, q, pk)
            IN  (ProductExists(pk) /\ o.products # products)
                => /\ o.products = {p \in products : p.id # pk}
                   /\ o.reviews = {r \in reviews : r.product # pk}

\* C9 witness: a product is gone with its review while a review of another
\* product is still stored.
ProductGoneReviewKept ==
    /\ response.status = "NoContent"
    /\ Cardinality(products) < nextProductId - 1
    /\ Cardinality(reviews) < nextReviewId - 1
    /\ reviews # {}
    /\ inflight = {}

Permitted(c, method) == method \in SafeMethods \/ c \in Users

\* the outcome of a detail request of ProductViewSet
Detail(kind, c, q, pk, b) ==
    CASE kind = "retrieve" -> Unchanged(retrieve(q, pk))
      [] kind = "rating" -> Unchanged(rating(q, pk))
      [] kind = "reviews" -> Unchanged(product_reviews(q, pk))
      [] kind = "PUT" -> update("PUT", c, q, pk, b)
      [] kind = "PATCH" -> update("PATCH", c, q, pk, b)
      [] kind = "DELETE" -> destroy(c, q, pk)

DetailKinds == {"retrieve", "rating", "reviews", "PUT", "PATCH", "DELETE"}

DetailMethod(kind) == IF kind \in {"retrieve", "rating", "reviews"} THEN "GET" ELSE kind

\* C10: a detail request on an existing product that passes the permission
\* check ends in NotFound and changes nothing when it carries a finite
\* min_rating above the product's average rating, and reaches the product when
\* it carries no min_rating.
MinRatingHidesDetail ==
    Idle =>
      \A kind \in DetailKinds, c \in Callers, pk \in ProductIds, b \in ProductBodies :
          (ProductExists(pk) /\ Permitted(c, DetailMethod(kind)))
          => /\ \A q \in FiniteMinRatings :
                   ~AverageAtLeast(pk, q)
                   => LET o == Detail(kind, c, q, pk, b)
                      IN  /\ o.response.status = "NotFound"
                          /\ o.products = products
                          /\ o.reviews = reviews
             /\ Detail(kind, c, <<>>, pk, b).response.status # "NotFound"

\* C10 witness: every product id and every review id is in the store, so the
\* NotFound answers a request for a product the min_rating filter hides.
ExistingProductHidden ==
    /\ response.status = "NotFound"
    /\ {p.id : p \in products} = ProductIds
    /\ {r.id : r \in reviews} = ReviewIds

====
